---------------------------- MODULE Spec2Model ----------------------------
(***************************************************************************)
(* Model of poi_map: the POI store (self.df and the parquet file) and the  *)
(* Dash callback graph of POIMapApp (src/poi_map/app/app.py) that drives   *)
(* the add and remove workflows, the marker layer, the sidebar's filter    *)
(* and statistics, and the start of the process.                           *)
(*                                                                         *)
(* Specifications                                                          *)
(*  - Spec: one page's add and remove workflows on the served app.         *)
(*  - SpecShared: the remove workflow beside a second browser session.     *)
(*  - SpecStart: parse_config, get_data and build() on the files a path    *)
(*    can hold.                                                            *)
(*  - SpecFilter: filter_markers on the sidebar's inputs.                  *)
(*                                                                         *)
(* Conventions                                                             *)
(*  - A Python str is a sequence of one-character atoms, so len() is Len.  *)
(*  - Python None in a str- or list-valued slot is the sentinel None.      *)
(*  - A coordinate is an integer number of 1/10000 degree; ":.3f" rounds   *)
(*    it to thousandths (Fixed3).                                          *)
(*  - A calendar date is its day number.                                   *)
(*  - The remove dropdown's value is the row key; the key is a JSON string *)
(*    in the browser ("0" is truthy), NoValue stands for Python None.      *)
(*  - Client component properties are variables named after the component *)
(*    id and property; ev records the callback that ran last and how it    *)
(*    ended.                                                               *)
(***************************************************************************)
EXTENDS Integers, Sequences, FiniteSets, TLC

VARIABLES
    df,                     \* self.df: sequence of rows, row key i is df[i+1]
    disk,                   \* the parquet file at config.database (columns)
    add_toast_is_open,      \* add-poi-toast.is_open
    add_modal_is_open,      \* add-poi-modal.is_open
    add_open_disabled,      \* add-poi-modal-open.disabled
    remove_open_disabled,   \* remove-poi-modal-open.disabled
    add_location,           \* add-poi-location.children
    clickData,              \* map.clickData
    add_title,              \* add-poi-title.value
    add_category,           \* add-poi-category.value
    add_date,               \* add-poi-date.date
    add_description,        \* add-poi-description.value
    create_n_clicks,        \* add-poi-modal-create.n_clicks
    new_success_is_open,    \* new-poi-success.is_open
    new_success_children,   \* new-poi-success.children
    remove_modal_is_open,   \* remove-poi-modal.is_open
    remove_options,         \* remove-poi-dropdown.options (label of key i at i+1)
    remove_value,           \* remove-poi-dropdown.value
    remove_n_clicks,        \* remove-poi-modal-remove.n_clicks
    remove_success_is_open, \* remove-poi-success.is_open
    remove_success_children,\* remove-poi-success.children
    remove_preview,         \* remove-poi-title/-category/-description.children
    inflight,               \* per callback of a map click: its answer, until applied
    ev,                     \* last callback: [op, by, outcome]
    phase,                  \* the process: "config", "load", "build", "serving", "aborted"
    file_exists,            \* config.database.exists()
    statistics,             \* the table of get_statistics(), built in build_sidebar
    category_filter,        \* category-filter.value
    date_filter,            \* date-filter.start_date and .end_date
    selected,               \* filter_markers' local frame of that name, as last computed
    markers,                \* the children of the map's "map-markers" group
    markers_inflight        \* answers of update_markers the page has yet to apply

vars == <<df, disk, add_toast_is_open, add_modal_is_open, add_open_disabled,
          remove_open_disabled, add_location, clickData, add_title,
          add_category, add_date, add_description, create_n_clicks,
          new_success_is_open, new_success_children, remove_modal_is_open,
          remove_options, remove_value, remove_n_clicks,
          remove_success_is_open, remove_success_children, remove_preview,
          inflight, ev, phase, file_exists, statistics, category_filter,
          date_filter, selected, markers, markers_inflight>>

storeVars == <<df, disk>>

constructVars == <<phase, file_exists, statistics>>

filterVars == <<category_filter, date_filter, selected>>

markerVars == <<markers, markers_inflight>>

addVars == <<add_toast_is_open, add_modal_is_open, add_open_disabled,
             remove_open_disabled, add_location, clickData, add_title,
             add_category, add_date, add_description, create_n_clicks,
             new_success_is_open, new_success_children>>

removeVars == <<remove_modal_is_open, remove_options, remove_value,
                remove_n_clicks, remove_success_is_open,
                remove_success_children, remove_preview>>

---------------------------------------------------------------------------
(* Bounds of the model *)

MaxRows == 2        \* rows the store may grow to
MaxClicks == 1      \* clicks counted on a submit button before it is reset

(* Program constants *)

LatMax == 90                 \* pa.Field(ge=-90.0, le=90.0)
LngMax == 180                \* pa.Field(ge=-180.0, le=180.0)
dropdown_text_length == 80   \* open_modal (remove)

Deg == 10 * 1000             \* coordinate units per degree

None == <<"<None>">>
NoValue == 0 - 1
NoClick == [lat |-> 0, lng |-> 0, set |-> FALSE]

Categories == {"x", "y"}     \* config.categories
ConfigCategories == <<"x", "y">>   \* the list as the config file gives it

(* Inputs the user can produce *)
Click(la, lo) == [lat |-> la, lng |-> lo, set |-> TRUE]
Clicks == { Click(123456, 0 - 1800000),      \* valid, longitude on the bound
            Click(950000, 200000) }          \* latitude 95
TitleInputs == { <<"C">> }
CategoryInputs == { <<>>, <<"x">> }          \* a cleared multi dropdown is []
DateInputs == { 2 }
DescriptionInputs == { <<"d">> }
Today == 1
FilterInputs == { <<>>, <<"x">>, <<"y">>, <<"x", "y">> }   \* switches left on


---------------------------------------------------------------------------
(* Python helpers *)

\* d[:k] for a str d: a negative k counts from the end
PySlicePrefix(d, k) ==
    IF k >= 0
    THEN SubSeq(d, 1, IF k < Len(d) THEN k ELSE Len(d))
    ELSE SubSeq(d, 1, IF Len(d) + k > 0 THEN Len(d) + k ELSE 0)

\* ", ".join(names)
RECURSIVE Join(_)
Join(names) ==
    IF Len(names) = 0 THEN <<>>
    ELSE IF Len(names) = 1 THEN <<names[1]>>
    ELSE <<names[1], ",", " ">> \o Join(Tail(names))

\* f"{x:.3f}": the coordinate rounded to thousandths of a degree
Fixed3(x) == IF x >= 0 THEN (x + 5) \div 10 ELSE 0 - ((5 - x) \div 10)

NaNLocation == [nan |-> TRUE, lat3 |-> 0, lng3 |-> 0]
FormatLocation(c) == [nan |-> FALSE, lat3 |-> Fixed3(c.lat), lng3 |-> Fixed3(c.lng)]

\* the alert texts
StaticMessage == [kind |-> "static", title |-> <<>>]   \* the text given at construction
NoneString == [kind |-> "'None'", title |-> <<>>]      \* the str "None"
NoneMessage == [kind |-> "None", title |-> <<>>]       \* Python None
AddedMessage(t) == [kind |-> "Added POI", title |-> t]
RemovedMessage(t) == [kind |-> "Removed POI", title |-> t]

---------------------------------------------------------------------------
(* io/database.py: the schema and the parquet file *)

\* RowOk with the latitude bounds left out
RowOkNoLatitude(r) ==
    /\ r.longitude >= 0 - LngMax * Deg /\ r.longitude <= LngMax * Deg
    /\ r.category # None
    /\ r.title # None
    /\ r.description # None

\* POIData: the column checks of one row
RowOk(r) ==
    /\ r.latitude >= 0 - LatMax * Deg /\ r.latitude <= LatMax * Deg
    /\ r.longitude >= 0 - LngMax * Deg /\ r.longitude <= LngMax * Deg
    /\ r.category # None      \* np.array(None) is 0-d: the check cannot iterate it
    /\ r.title # None         \* Series[str] is not nullable
    /\ r.description # None

\* POIData.validate(frame): TRUE when it returns the frame, FALSE when it raises
validate(rows) == \A i \in 1..Len(rows) : RowOk(rows[i])

Column(rows, f) == [i \in 1..Len(rows) |-> rows[i][f]]

\* to_parquet losing the row appended last
to_parquet_short(rows) ==
    LET kept == IF Len(rows) > 1 THEN SubSeq(rows, 1, Len(rows) - 1) ELSE rows
    IN  [latitude |-> Column(kept, "latitude"),
         longitude |-> Column(kept, "longitude"),
         category |-> Column(kept, "category"),
         date |-> Column(kept, "date"),
         title |-> Column(kept, "title"),
         description |-> Column(kept, "description")]

\* DataFrame.to_parquet: the table written column by column
to_parquet(rows) ==
    [latitude |-> Column(rows, "latitude"),
     longitude |-> Column(rows, "longitude"),
     category |-> Column(rows, "category"),
     date |-> Column(rows, "date"),
     title |-> Column(rows, "title"),
     description |-> Column(rows, "description")]

\* pd.read_parquet: the rows rebuilt from the columns
read_parquet(file) ==
    [i \in 1..Len(file.latitude) |->
        [latitude |-> file.latitude[i],
         longitude |-> file.longitude[i],
         category |-> file.category[i],
         date |-> file.date[i],
         title |-> file.title[i],
         description |-> file.description[i]]]

Row(la, lo, c, d, t, desc) ==
    [latitude |-> la, longitude |-> lo, category |-> c, date |-> d,
     title |-> t, description |-> desc]

\* files the app may be started on; the second holds longitude 181.2346
StartFiles ==
    { to_parquet(<<Row(0 - 900000, 1800000, <<"x", "y">>, 2, <<"B">>, <<"e">>)>>),
      to_parquet(<<Row(100000, 1812346, <<"x">>, 1, <<"A">>, <<"d">>)>>) }

---------------------------------------------------------------------------
(* app.py: the store operations inside the callbacks *)

\* concat with the frames in the other order
concat_front(rows, new_poi) == new_poi \o rows

\* pd.concat([self.df, new_poi]).reset_index(drop=True)
concat(rows, new_poi) == rows \o new_poi

\* drop taking the key for a 1-based position
drop_shifted(rows, value) ==
    [j \in 1..(Len(rows) - 1) |-> IF j < value THEN rows[j] ELSE rows[j + 1]]

\* self.df.drop(int(value)).reset_index(drop=True); the index is 0..N-1
drop(rows, value) ==
    [j \in 1..(Len(rows) - 1) |-> IF j <= value THEN rows[j] ELSE rows[j + 1]]

\* self.df.iloc[int(value)] raises IndexError outside the table
InRange(rows, value) == value >= 0 /\ value < Len(rows)

\* the label of one row in the remove dropdown
Label(t, d) ==
    LET k == dropdown_text_length - Len(t) - 6
        dd == IF Len(d) > k THEN PySlicePrefix(d, k) \o <<".", ".", ".">> ELSE d
    IN  t \o <<" ", "(">> \o dd \o <<")">>

---------------------------------------------------------------------------
(* app.py: the marker layer, the filter and the statistics *)

\* a date as the ISO text the date pickers hold; NoDate is Python None
NoDate == [iso |-> 0, set |-> FALSE]
isoformat(d) == [iso |-> d, set |-> TRUE]
fromisoformat(s) == s.iso

\* get_markers with the rows in reverse
get_markers_reversed(rows) ==
    [i \in 1..Len(rows) |->
        [position |-> <<rows[Len(rows) + 1 - i].latitude, rows[Len(rows) + 1 - i].longitude>>,
         title |-> rows[Len(rows) + 1 - i].title,
         date |-> isoformat(rows[Len(rows) + 1 - i].date),
         category |-> rows[Len(rows) + 1 - i].category,
         description |-> rows[Len(rows) + 1 - i].description]]

\* get_markers: the serialized marker of every row, in iterrows order
get_markers(rows) ==
    [i \in 1..Len(rows) |->
        [position |-> <<rows[i].latitude, rows[i].longitude>>,
         title |-> rows[i].title,
         date |-> isoformat(rows[i].date),
         category |-> rows[i].category,
         description |-> rows[i].description]]

\* format_marker: the dl.Marker and the lines of its tooltip
format_marker(marker) ==
    [position |-> marker.position,
     title |-> marker.title,
     date |-> marker.date,
     category |-> Join(marker.category),
     description |-> marker.description]

\* build_map: the children of the "map-markers" group (the tile layer and the
\* controls beside it are constant)
build_map(rows) == [i \in 1..Len(rows) |-> format_marker(get_markers(rows)[i])]

\* update_markers(df): the markers it wraps in a FeatureGroup
update_markers(rows) == [i \in 1..Len(rows) |-> format_marker(get_markers(rows)[i])]

\* x in category, for an ndarray of names
Contains(category, x) == \E k \in 1..Len(category) : category[k] = x

\* filter_selected with the end of the range left out of it
filter_selected_open_end(rows, filtered_categories, start_date, end_date) ==
    LET by_category(r) ==
            \E j \in 1..Len(filtered_categories) :
                Contains(r.category, filtered_categories[j])
        in_range(r) ==
            /\ r.date >= fromisoformat(start_date)
            /\ r.date < fromisoformat(end_date)
        first == SelectSeq(rows, by_category)
    IN  IF start_date # NoDate /\ end_date # NoDate
        THEN SelectSeq(first, in_range)
        ELSE first

\* filter_markers, the frame it calls selected
filter_selected(rows, filtered_categories, start_date, end_date) ==
    LET by_category(r) ==
            \E j \in 1..Len(filtered_categories) :
                Contains(r.category, filtered_categories[j])
        in_range(r) ==
            /\ r.date >= fromisoformat(start_date)
            /\ r.date <= fromisoformat(end_date)
        first == SelectSeq(rows, by_category)
    IN  IF start_date # NoDate /\ end_date # NoDate
        THEN SelectSeq(first, in_range)
        ELSE first

\* filter_markers: selected is computed, self.build_map() is returned
filter_markers(rows, filtered_categories, start_date, end_date) ==
    [selected |-> filter_selected(rows, filtered_categories, start_date, end_date),
     children |-> build_map(rows)]

\* Series.explode(): the names of all rows one after the other (an empty list
\* gives NaN, which value_counts drops)
RECURSIVE explode(_)
explode(rows) ==
    IF Len(rows) = 0 THEN <<>> ELSE rows[1].category \o explode(Tail(rows))

\* value_counts counting each name once however often it occurs
value_counts_once(names) ==
    [c \in {names[k] : k \in 1..Len(names)} |-> 1]

\* Series.value_counts(): how often each name occurs
value_counts(names) ==
    [c \in {names[k] : k \in 1..Len(names)} |->
        Cardinality({k \in 1..Len(names) : names[k] = c})]

\* get_statistics: the counts shown in the sidebar
get_statistics(rows) == value_counts(explode(rows))

\* update_markers asked for by the click alone
update_markers_answers_unchained(clicked, wrote, before, after) ==
    IF clicked THEN {<<update_markers(before)>>} ELSE {<<>>}

\* The answers of update_markers that follow a run of create_poi or remove_poi,
\* in the order the page applies them.  A click on the submit button is an
\* Input of update_markers as well, so that request may be answered from the
\* table as it was before the run.  n_clicks is an Output of the run: writing
\* it requests update_markers again, on the table as the run left it.
update_markers_answers(clicked, wrote, before, after) ==
    LET early == IF clicked /\ wrote
                 THEN {<<>>, <<update_markers(before)>>}
                 ELSE {<<>>}
        late == IF clicked \/ wrote THEN <<update_markers(after)>> ELSE <<>>
    IN  { e \o late : e \in early }

\* the answers that change the layer they are applied to
RECURSIVE Changing(_, _)
Changing(shown, answers) ==
    IF Len(answers) = 0 THEN <<>>
    ELSE IF answers[1] = shown THEN Changing(shown, Tail(answers))
    ELSE <<answers[1]>> \o Changing(answers[1], Tail(answers))

---------------------------------------------------------------------------
(* app.py: the callbacks of the add workflow, as functions of their arguments *)

\* show_toast disabling only its own button
show_toast_add_only == [toast |-> TRUE, add_disabled |-> TRUE, remove_disabled |-> FALSE]

\* show_toast: the three outputs
show_toast == [toast |-> TRUE, add_disabled |-> TRUE, remove_disabled |-> TRUE]

\* open_modal of _attach_open_new_modal_callback
open_modal(coordinates, is_open_modal, is_open_toast) ==
    IF coordinates.set /\ is_open_toast /\ ~is_open_modal
    THEN [location |-> FormatLocation(coordinates), modal |-> TRUE, toast |-> FALSE]
    ELSE [location |-> NaNLocation, modal |-> FALSE, toast |-> FALSE]

\* the frame create_poi builds from its arguments
new_poi(coordinates, title, category, date, description) ==
    Row(coordinates.lat, coordinates.lng, category, date, title, description)

\* create_poi: which branch runs, and the ten outputs it returns.  The
\* parameter named is_open_toast receives State("add-poi-modal", "is_open").
\* A rejected frame raises out of _validate_poi (the schema's error is not the
\* pydantic ValidationError it catches), so nothing is returned.
create_poi(n_clicks, coordinates, title, category, date, description, is_open_toast) ==
    IF ~is_open_toast
    THEN [status |-> "closed",
          out |-> [modal |-> FALSE, success_open |-> FALSE,
                   success_children |-> NoneString,
                   add_disabled |-> FALSE, remove_disabled |-> FALSE,
                   title |-> None, category |-> None, date |-> date,
                   description |-> None, n_clicks |-> 0]]
    ELSE IF n_clicks > 0 /\ coordinates.set
    THEN IF validate(<<new_poi(coordinates, title, category, date, description)>>)
         THEN [status |-> "added",
               out |-> [modal |-> FALSE, success_open |-> TRUE,
                        success_children |-> AddedMessage(title),
                        add_disabled |-> FALSE, remove_disabled |-> FALSE,
                        title |-> None, category |-> None, date |-> date,
                        description |-> None, n_clicks |-> n_clicks]]
         ELSE [status |-> "raised",
               out |-> [modal |-> TRUE, success_open |-> FALSE,
                        success_children |-> NoneString,
                        add_disabled |-> FALSE, remove_disabled |-> FALSE,
                        title |-> title, category |-> category, date |-> date,
                        description |-> description, n_clicks |-> n_clicks]]
    ELSE [status |-> "retained",
          out |-> [modal |-> TRUE, success_open |-> FALSE,
                   success_children |-> NoneString,
                   add_disabled |-> FALSE, remove_disabled |-> FALSE,
                   title |-> title, category |-> category, date |-> date,
                   description |-> description, n_clicks |-> 0]]

---------------------------------------------------------------------------
(* app.py: the callbacks of the remove workflow *)

\* open_modal of _attach_open_remove_modal_callback: one label per row
open_remove_modal(rows) ==
    [modal |-> TRUE,
     options |-> [i \in 1..Len(rows) |-> Label(rows[i].title, rows[i].description)]]

SelectPrompt == [title |-> <<"Select a POI to remove.">>, category |-> <<>>,
                 description |-> <<>>]

\* update_remove_modal looking one row too far
update_remove_modal_next_row(rows, value, old) ==
    IF value # NoValue
    THEN IF value >= 0 /\ value < Len(rows)
         THEN [title |-> rows[((value + 1) % Len(rows)) + 1].title,
               category |-> Join(rows[((value + 1) % Len(rows)) + 1].category),
               description |-> rows[((value + 1) % Len(rows)) + 1].description]
         ELSE old
    ELSE [title |-> <<"Select a POI to remove.">>, category |-> <<>>,
          description |-> <<>>]

\* update_remove_modal: the preview of the selected row; it raises (and
\* leaves the preview as it is) when iloc is out of bounds
update_remove_modal(rows, value, old) ==
    IF value # NoValue
    THEN IF InRange(rows, value)
         THEN [title |-> rows[value + 1].title,
               category |-> Join(rows[value + 1].category),
               description |-> rows[value + 1].description]
         ELSE old
    ELSE SelectPrompt

\* remove_poi ignoring a key outside the table instead of raising
remove_poi_lenient(rows, value, n_clicks, is_open_modal) ==
    IF ~is_open_modal
    THEN [status |-> "closed",
          out |-> [modal |-> FALSE, n_clicks |-> 0, success_open |-> FALSE,
                   success_children |-> NoneMessage, value |-> NoValue]]
    ELSE IF value # NoValue /\ n_clicks > 0 /\ InRange(rows, value)
    THEN [status |-> "removed",
          out |-> [modal |-> FALSE, n_clicks |-> 0, success_open |-> TRUE,
                   success_children |-> RemovedMessage(rows[value + 1].title),
                   value |-> NoValue]]
    ELSE [status |-> "retained",
          out |-> [modal |-> TRUE, n_clicks |-> 0, success_open |-> FALSE,
                   success_children |-> NoneMessage, value |-> value]]

\* remove_poi: which branch runs, and the five outputs it returns
remove_poi(rows, value, n_clicks, is_open_modal) ==
    IF ~is_open_modal
    THEN [status |-> "closed",
          out |-> [modal |-> FALSE, n_clicks |-> 0, success_open |-> FALSE,
                   success_children |-> NoneMessage, value |-> NoValue]]
    ELSE IF value # NoValue /\ n_clicks > 0
    THEN IF InRange(rows, value)
         THEN [status |-> "removed",
               out |-> [modal |-> FALSE, n_clicks |-> 0, success_open |-> TRUE,
                        success_children |-> RemovedMessage(rows[value + 1].title),
                        value |-> NoValue]]
         ELSE [status |-> "IndexError",
               out |-> [modal |-> TRUE, n_clicks |-> n_clicks, success_open |-> FALSE,
                        success_children |-> NoneMessage, value |-> value]]
    ELSE [status |-> "retained",
          out |-> [modal |-> TRUE, n_clicks |-> 0, success_open |-> FALSE,
                   success_children |-> NoneMessage, value |-> value]]

---------------------------------------------------------------------------
(* Construction: POIMapApp.__init__ and the layout of build() *)

\* initialize_schema: the six columns and no row
initialize_schema == <<>>

\* get_data: read_parquet (POIData.validate follows, see validate) when the
\* file exists, else the empty frame
get_data(exists, file) == IF exists THEN read_parquet(file) ELSE initialize_schema

\* no callback requested: the slots hold no answer
NoRequest ==
    [open_modal |-> [pending |-> FALSE, out |-> open_modal(NoClick, FALSE, FALSE)],
     create_poi |-> [pending |-> FALSE,
                     out |-> create_poi(0, NoClick, None, None, Today, None, FALSE).out]]

EmptyPreview == [title |-> <<>>, category |-> <<>>, description |-> <<>>]

\* the page as build() lays it out
Layout ==
    /\ add_toast_is_open = FALSE
    /\ add_modal_is_open = FALSE
    /\ add_open_disabled = FALSE
    /\ remove_open_disabled = FALSE
    /\ add_location = NaNLocation
    /\ clickData = NoClick
    /\ add_title = None
    /\ add_category = None
    /\ add_date = Today
    /\ add_description = None
    /\ create_n_clicks = 0
    /\ new_success_is_open = FALSE
    /\ new_success_children = StaticMessage
    /\ remove_modal_is_open = FALSE
    /\ remove_options = <<>>
    /\ remove_value = NoValue
    /\ remove_n_clicks = 0
    /\ remove_success_is_open = FALSE
    /\ remove_success_children = StaticMessage
    /\ remove_preview = EmptyPreview
    /\ inflight = NoRequest
    /\ category_filter = ConfigCategories
    /\ date_filter = [start_date |-> NoDate, end_date |-> NoDate]
    /\ markers_inflight = <<>>

\* the app constructed and built on a file, and the page loaded: filter_markers
\* has had its initial call
Served(file) ==
    /\ file_exists = TRUE
    /\ validate(read_parquet(file))      \* else startup aborts
    /\ disk = file
    /\ df = get_data(TRUE, file)
    /\ phase = "serving"
    /\ statistics = get_statistics(df)
    /\ selected = filter_markers(df, ConfigCategories, NoDate, NoDate).selected
    /\ markers = build_map(df)
    /\ Layout
    /\ ev = [op |-> "init", by |-> "start", outcome |-> "ok"]

Init == \E file \in StartFiles : Served(file)

\* the browser applies one response at a time; the user acts on a settled page
Quiet ==
    /\ phase = "serving"
    /\ ~inflight.open_modal.pending /\ ~inflight.create_poi.pending
    /\ markers_inflight = <<>>

\* a dbc.Modal is shown over a backdrop: nothing behind it can be clicked
ModalShown == add_modal_is_open \/ remove_modal_is_open

---------------------------------------------------------------------------
(* The marker layer *)

\* update_markers is requested; an answer that leaves the layer as it is
\* counts as applied
RequestUpdateMarkers(clicked, wrote, before, after) ==
    /\ \E answers \in update_markers_answers(clicked, wrote, before, after) :
          markers_inflight' = Changing(markers, markers_inflight \o answers)
    /\ markers' = markers

\* an answer of update_markers arrives: "map-markers".children is replaced
DeliverUpdateMarkers ==
    /\ Len(markers_inflight) > 0
    /\ markers' = Head(markers_inflight)
    /\ markers_inflight' = Tail(markers_inflight)
    /\ ev' = [op |-> "update_markers", by |-> ev.by, outcome |-> "applied"]
    /\ UNCHANGED <<storeVars, addVars, removeVars, inflight, constructVars,
                   filterVars>>

\* an Input of filter_markers changes: it runs on the three values
RunFilterMarkers(filtered_categories, start_date, end_date) ==
    LET r == filter_markers(df, filtered_categories, start_date, end_date)
    IN  /\ Quiet /\ ~ModalShown
        /\ category_filter' = filtered_categories
        /\ date_filter' = [start_date |-> start_date, end_date |-> end_date]
        /\ selected' = r.selected
        /\ markers' = r.children
        /\ ev' = [op |-> "filter_markers", by |-> "filter_change", outcome |-> "ok"]
        /\ UNCHANGED <<storeVars, addVars, removeVars, inflight, constructVars,
                       markers_inflight>>

ChangeCategoryFilter(value) ==
    /\ value # category_filter
    /\ RunFilterMarkers(value, date_filter.start_date, date_filter.end_date)

ChangeStartDate(d) ==
    /\ d # date_filter.start_date
    /\ RunFilterMarkers(category_filter, d, date_filter.end_date)

ChangeEndDate(d) ==
    /\ d # date_filter.end_date
    /\ RunFilterMarkers(category_filter, date_filter.start_date, d)

---------------------------------------------------------------------------
(* The add workflow *)

\* "Add POI" clicked: show_toast
ClickAddPoi ==
    /\ Quiet /\ ~ModalShown /\ ~add_open_disabled
    /\ add_toast_is_open' = show_toast.toast
    /\ add_open_disabled' = show_toast.add_disabled
    /\ remove_open_disabled' = show_toast.remove_disabled
    /\ ev' = [op |-> "show_toast", by |-> "add_open_click", outcome |-> "ok"]
    /\ UNCHANGED <<constructVars, filterVars, markerVars>>
    /\ UNCHANGED <<storeVars, removeVars, inflight, add_modal_is_open,
                   add_location, clickData, add_title, add_category, add_date,
                   add_description, create_n_clicks, new_success_is_open,
                   new_success_children>>

\* The map is clicked: clickData is an Input of open_modal and of create_poi.
\* Both are requested with the State of that moment and answer separately.
MapClick(c) ==
    /\ Quiet /\ ~ModalShown
    /\ clickData' = c
    /\ inflight' =
         [open_modal |->
            [pending |-> TRUE,
             out |-> open_modal(c, add_modal_is_open, add_toast_is_open)],
          create_poi |->
            [pending |-> TRUE,
             out |-> create_poi(create_n_clicks, c, add_title, add_category,
                                add_date, add_description, add_modal_is_open).out]]
    /\ ev' = [op |-> "map_click", by |-> "map_click", outcome |-> "requested"]
    /\ UNCHANGED <<constructVars, filterVars, markerVars>>
    /\ UNCHANGED <<storeVars, removeVars, add_toast_is_open, add_modal_is_open,
                   add_open_disabled, remove_open_disabled, add_location,
                   add_title, add_category, add_date, add_description,
                   create_n_clicks, new_success_is_open, new_success_children>>

\* the response of open_modal arrives
DeliverOpenModal ==
      /\ inflight.open_modal.pending
      /\ add_location' = inflight.open_modal.out.location
      /\ add_modal_is_open' = inflight.open_modal.out.modal
      /\ add_toast_is_open' = inflight.open_modal.out.toast
      /\ inflight' = [inflight EXCEPT !.open_modal = NoRequest.open_modal]
      /\ ev' = [op |-> "open_modal", by |-> "map_click", outcome |-> "applied"]
      /\ UNCHANGED <<constructVars, filterVars, markerVars>>
      /\ UNCHANGED <<storeVars, removeVars, add_open_disabled,
                     remove_open_disabled, clickData, add_title, add_category,
                     add_date, add_description, create_n_clicks,
                     new_success_is_open, new_success_children>>

\* the outputs listed with the two buttons before the alert
ApplyCreateOutputsShifted(out) ==
    /\ add_modal_is_open' = out.modal
    /\ add_open_disabled' = out.success_open
    /\ remove_open_disabled' = out.success_open
    /\ new_success_is_open' = out.add_disabled
    /\ new_success_children' = out.success_children
    /\ add_title' = out.title
    /\ add_category' = out.category
    /\ add_date' = out.date
    /\ add_description' = out.description
    /\ create_n_clicks' = out.n_clicks

\* the ten outputs of create_poi are written to the page
ApplyCreateOutputs(out) ==
    /\ add_modal_is_open' = out.modal
    /\ new_success_is_open' = out.success_open
    /\ new_success_children' = out.success_children
    /\ add_open_disabled' = out.add_disabled
    /\ remove_open_disabled' = out.remove_disabled
    /\ add_title' = out.title
    /\ add_category' = out.category
    /\ add_date' = out.date
    /\ add_description' = out.description
    /\ create_n_clicks' = out.n_clicks

\* the response of the create_poi requested by the map click arrives
DeliverCreatePoi ==
      /\ inflight.create_poi.pending
      /\ ApplyCreateOutputs(inflight.create_poi.out)
      /\ inflight' = [inflight EXCEPT !.create_poi = NoRequest.create_poi]
      /\ ev' = [op |-> "create_poi", by |-> "map_click", outcome |-> "applied"]
      /\ RequestUpdateMarkers(FALSE, TRUE, df, df)
      /\ UNCHANGED <<constructVars, filterVars>>
      /\ UNCHANGED <<storeVars, removeVars, add_toast_is_open, add_location,
                     clickData>>

\* create_poi run for an Input changed inside the open form
RunCreatePoi(n, t, c, d, desc, by) ==
    LET r == create_poi(n, clickData, t, c, d, desc, add_modal_is_open)
        poi == new_poi(clickData, t, c, d, desc)
    IN  /\ Quiet /\ add_modal_is_open
        /\ r.status = "added" => Len(df) < MaxRows
        /\ IF r.status = "raised"
           THEN /\ add_title' = t /\ add_category' = c /\ add_date' = d
                /\ add_description' = desc /\ create_n_clicks' = n
                /\ UNCHANGED <<storeVars, add_modal_is_open, new_success_is_open,
                               new_success_children, add_open_disabled,
                               remove_open_disabled>>
                /\ ev' = [op |-> "create_poi", by |-> by, outcome |-> "SchemaError"]
                /\ RequestUpdateMarkers(by = "create_click", FALSE, df, df)
           ELSE /\ ApplyCreateOutputs(r.out)
                /\ IF r.status = "added"
                   THEN /\ df' = concat(df, <<poi>>)
                        /\ disk' = to_parquet(df')
                   ELSE UNCHANGED storeVars
                /\ ev' = [op |-> "create_poi", by |-> by, outcome |-> r.status]
                /\ RequestUpdateMarkers(by = "create_click", TRUE, df, df')
        /\ UNCHANGED <<removeVars, inflight, add_toast_is_open, add_location,
                       clickData, constructVars, filterVars>>

ClickCreate ==
    /\ create_n_clicks < MaxClicks
    /\ RunCreatePoi(create_n_clicks + 1, add_title, add_category, add_date,
                    add_description, "create_click")

EditTitle(t) ==
    /\ t # add_title
    /\ RunCreatePoi(create_n_clicks, t, add_category, add_date,
                    add_description, "edit_title")

EditCategory(c) ==
    /\ c # add_category
    /\ RunCreatePoi(create_n_clicks, add_title, c, add_date,
                    add_description, "edit_category")

EditDate(d) ==
    /\ d # add_date
    /\ RunCreatePoi(create_n_clicks, add_title, add_category, d,
                    add_description, "edit_date")

EditDescription(desc) ==
    /\ desc # add_description
    /\ RunCreatePoi(create_n_clicks, add_title, add_category, add_date,
                    desc, "edit_description")

\* the form's close button, the backdrop or Esc: is_open is no Input
CloseAddModal ==
    /\ Quiet /\ add_modal_is_open
    /\ add_modal_is_open' = FALSE
    /\ ev' = [op |-> "client", by |-> "close_add_modal", outcome |-> "ok"]
    /\ UNCHANGED <<constructVars, filterVars, markerVars>>
    /\ UNCHANGED <<storeVars, removeVars, inflight, add_toast_is_open,
                   add_open_disabled, remove_open_disabled, add_location,
                   clickData, add_title, add_category, add_date,
                   add_description, create_n_clicks, new_success_is_open,
                   new_success_children>>

\* the prompt is dismissable
DismissToast ==
    /\ Quiet /\ ~ModalShown /\ add_toast_is_open
    /\ add_toast_is_open' = FALSE
    /\ ev' = [op |-> "client", by |-> "dismiss_toast", outcome |-> "ok"]
    /\ UNCHANGED <<constructVars, filterVars, markerVars>>
    /\ UNCHANGED <<storeVars, removeVars, inflight, add_modal_is_open,
                   add_open_disabled, remove_open_disabled, add_location,
                   clickData, add_title, add_category, add_date,
                   add_description, create_n_clicks, new_success_is_open,
                   new_success_children>>

\* a success alert closes after its duration
ExpireNewSuccess ==
    /\ Quiet /\ new_success_is_open
    /\ new_success_is_open' = FALSE
    /\ ev' = [op |-> "client", by |-> "expire_new_success", outcome |-> "ok"]
    /\ UNCHANGED <<constructVars, filterVars, markerVars>>
    /\ UNCHANGED <<storeVars, removeVars, inflight, add_toast_is_open,
                   add_modal_is_open, add_open_disabled, remove_open_disabled,
                   add_location, clickData, add_title, add_category, add_date,
                   add_description, create_n_clicks, new_success_children>>

---------------------------------------------------------------------------
(* The remove workflow *)

\* "Remove POI" clicked: open_modal fills the dropdown from self.df
ClickRemovePoi ==
    /\ Quiet /\ ~ModalShown /\ ~remove_open_disabled
    /\ remove_modal_is_open' = open_remove_modal(df).modal
    /\ remove_options' = open_remove_modal(df).options
    /\ ev' = [op |-> "open_remove_modal", by |-> "remove_open_click", outcome |-> "ok"]
    /\ UNCHANGED <<constructVars, filterVars, markerVars>>
    /\ UNCHANGED <<storeVars, addVars, inflight, remove_value, remove_n_clicks,
                   remove_success_is_open, remove_success_children,
                   remove_preview>>

\* remove_poi run for an Input changed inside the open picker; the value it
\* writes to the dropdown then runs update_remove_modal
RunRemovePoi(value, n, by) ==
    LET r == remove_poi(df, value, n, remove_modal_is_open)
    IN  /\ Quiet /\ remove_modal_is_open
        /\ IF r.status = "IndexError"
           THEN /\ remove_value' = value
                /\ remove_n_clicks' = n
                /\ remove_preview' = update_remove_modal(df, value, remove_preview)
                /\ UNCHANGED <<storeVars, remove_modal_is_open,
                               remove_success_is_open, remove_success_children>>
                /\ RequestUpdateMarkers(by = "remove_click", FALSE, df, df)
           ELSE /\ remove_modal_is_open' = r.out.modal
                /\ remove_n_clicks' = r.out.n_clicks
                /\ remove_success_is_open' = r.out.success_open
                /\ remove_success_children' = r.out.success_children
                /\ remove_value' = r.out.value
                /\ IF r.status = "removed"
                   THEN /\ df' = drop(df, value)
                        /\ disk' = to_parquet(df')
                   ELSE UNCHANGED storeVars
                /\ remove_preview' = update_remove_modal(df', r.out.value, remove_preview)
                /\ RequestUpdateMarkers(by = "remove_click", TRUE, df, df')
        /\ ev' = [op |-> "remove_poi", by |-> by, outcome |-> r.status]
        /\ UNCHANGED <<addVars, inflight, remove_options, constructVars,
                       filterVars>>

\* an entry of the dropdown is selected, or the selection is cleared
SelectEntry(value) ==
    /\ value # remove_value
    /\ value \in (0..(Len(remove_options) - 1)) \cup {NoValue}
    /\ RunRemovePoi(value, remove_n_clicks, "select")

ClickRemove ==
    /\ remove_n_clicks < MaxClicks
    /\ RunRemovePoi(remove_value, remove_n_clicks + 1, "remove_click")

CloseRemoveModal ==
    /\ Quiet /\ remove_modal_is_open
    /\ remove_modal_is_open' = FALSE
    /\ ev' = [op |-> "client", by |-> "close_remove_modal", outcome |-> "ok"]
    /\ UNCHANGED <<constructVars, filterVars, markerVars>>
    /\ UNCHANGED <<storeVars, addVars, inflight, remove_options, remove_value,
                   remove_n_clicks, remove_success_is_open,
                   remove_success_children, remove_preview>>

\* the alert closes after its duration; no callback reads its is_open, so the
\* timer is followed in SpecShared only
ExpireRemoveSuccess ==
    /\ Quiet /\ remove_success_is_open
    /\ remove_success_is_open' = FALSE
    /\ ev' = [op |-> "client", by |-> "expire_remove_success", outcome |-> "ok"]
    /\ UNCHANGED <<constructVars, filterVars, markerVars>>
    /\ UNCHANGED <<storeVars, addVars, inflight, remove_modal_is_open,
                   remove_options, remove_value, remove_n_clicks,
                   remove_success_children, remove_preview>>

\* A second browser session on the same server: its callbacks run on the
\* shared self.df with that session's own page, which is not kept here.
OtherSessionRemove(i) ==
    /\ Quiet
    /\ remove_poi(df, i, 1, TRUE).status = "removed"
    /\ df' = drop(df, i)
    /\ disk' = to_parquet(df')
    /\ ev' = [op |-> "remove_poi", by |-> "other_session", outcome |-> "removed"]
    /\ UNCHANGED <<constructVars, filterVars, markerVars>>
    /\ UNCHANGED <<addVars, removeVars, inflight>>

OtherSessionCreate(c, t, cat, d, desc) ==
    /\ Quiet
    /\ Len(df) < MaxRows
    /\ create_poi(1, c, t, cat, d, desc, TRUE).status = "added"
    /\ df' = concat(df, <<new_poi(c, t, cat, d, desc)>>)
    /\ disk' = to_parquet(df')
    /\ ev' = [op |-> "create_poi", by |-> "other_session", outcome |-> "added"]
    /\ UNCHANGED <<constructVars, filterVars, markerVars>>
    /\ UNCHANGED <<addVars, removeVars, inflight>>

---------------------------------------------------------------------------
Next ==
    \/ ClickAddPoi
    \/ \E c \in Clicks : MapClick(c)
    \/ DeliverOpenModal
    \/ DeliverCreatePoi
    \/ ClickCreate
    \/ \E t \in TitleInputs : EditTitle(t)
    \/ \E c \in CategoryInputs : EditCategory(c)
    \/ \E d \in DateInputs : EditDate(d)
    \/ \E desc \in DescriptionInputs : EditDescription(desc)
    \/ CloseAddModal
    \/ DismissToast
    \/ ExpireNewSuccess
    \/ ClickRemovePoi
    \/ \E v \in (0..MaxRows) \cup {NoValue} : SelectEntry(v)
    \/ ClickRemove
    \/ CloseRemoveModal
    \/ DeliverUpdateMarkers

Spec == Init /\ [][Next]_vars

\* the remove workflow of this page beside a second session
NextShared ==
    \/ ClickRemovePoi
    \/ \E v \in (0..MaxRows) \cup {NoValue} : SelectEntry(v)
    \/ ClickRemove
    \/ CloseRemoveModal
    \/ ExpireRemoveSuccess
    \/ \E i \in 0..MaxRows : OtherSessionRemove(i)
    \/ \E c \in Clicks, t \in TitleInputs, cat \in CategoryInputs,
          d \in DateInputs, desc \in DescriptionInputs :
            OtherSessionCreate(c, t, cat, d, desc)
    \/ DeliverUpdateMarkers

SpecShared == Init /\ [][NextShared]_vars

\* The process from its start: the config is parsed, the file is loaded, the
\* app is built and served.
MaxTitleLen == 82
MaxDescriptionLen == 90
Str(n) == [i \in 1..n |-> "a"]
LabelFiles ==
    { to_parquet(<<Row(100000, 200000, <<"x">>, 1, Str(tl), Str(dl))>>) :
        tl \in 0..MaxTitleLen, dl \in 0..MaxDescriptionLen }
CountRows ==
    { Row(100000, 200000, c, 1, <<"A">>, <<"d">>) :
        c \in {<<>>, <<"x">>, <<"y">>, <<"x", "y">>, <<"x", "x">>} }
CountFiles ==
    { to_parquet(<<>>) } \cup { to_parquet(<<r>>) : r \in CountRows }
      \cup { to_parquet(<<r, q>>) : r \in CountRows, q \in CountRows }
LoadFiles == LabelFiles \cup CountFiles \cup StartFiles

NoStatistics == <<>>

InitStart ==
    /\ phase = "config"
    /\ file_exists \in BOOLEAN
    /\ disk \in (IF file_exists THEN LoadFiles ELSE { to_parquet(<<>>) })
    /\ df = <<>>
    /\ statistics = NoStatistics
    /\ selected = <<>>
    /\ markers = <<>>
    /\ Layout
    /\ ev = [op |-> "main", by |-> "start", outcome |-> "ok"]

\* parse_config: POIMapConfig(**config) runs database_must_exist
ParseConfig ==
    /\ phase = "config"
    /\ phase' = IF file_exists THEN "load" ELSE "aborted"
    /\ ev' = [op |-> "parse_config", by |-> "start",
              outcome |-> IF file_exists THEN "ok" ELSE "ValueError"]
    /\ UNCHANGED <<storeVars, addVars, removeVars, inflight, file_exists,
                   statistics, filterVars, markerVars>>

\* POIMapApp.__init__: self.df = get_data(config.database)
GetData ==
    LET rows == get_data(file_exists, disk)
    IN  /\ phase = "load"
        /\ IF validate(rows)
           THEN /\ df' = rows
                /\ phase' = "build"
                /\ ev' = [op |-> "get_data", by |-> "start", outcome |-> "ok"]
           ELSE /\ df' = df
                /\ phase' = "aborted"
                /\ ev' = [op |-> "get_data", by |-> "start", outcome |-> "SchemaError"]
        /\ UNCHANGED <<disk, addVars, removeVars, inflight, file_exists,
                       statistics, filterVars, markerVars>>

\* build(), run() and the page load with the initial call of filter_markers
Build ==
    /\ phase = "build"
    /\ statistics' = get_statistics(df)
    /\ markers' = build_map(df)
    /\ selected' = filter_markers(df, category_filter, date_filter.start_date,
                                  date_filter.end_date).selected
    /\ phase' = "serving"
    /\ ev' = [op |-> "build", by |-> "start", outcome |-> "ok"]
    /\ UNCHANGED <<storeVars, addVars, removeVars, inflight, file_exists,
                   category_filter, date_filter, markers_inflight>>

NextStart ==
    \/ ParseConfig
    \/ GetData
    \/ Build
    \/ ClickRemovePoi
    \/ CloseRemoveModal

SpecStart == InitStart /\ [][NextStart]_vars

\* the filter of the sidebar, on the tables a file can hold
MaxDate == 3
FilterDates == {NoDate} \cup { isoformat(d) : d \in 1..MaxDate }
FilterRows ==
    { Row(100000, 200000, c, d, <<"A">>, <<"d">>) :
        c \in {<<>>, <<"x">>, <<"y">>, <<"x", "y">>}, d \in 1..MaxDate }
FilterFiles ==
    { to_parquet(<<>>) } \cup { to_parquet(<<r>>) : r \in FilterRows }
      \cup { to_parquet(<<r, q>>) : r \in FilterRows, q \in FilterRows }

InitFilter == \E file \in FilterFiles : Served(file)

NextFilter ==
    \/ \E value \in FilterInputs : ChangeCategoryFilter(value)
    \/ \E d \in FilterDates : ChangeStartDate(d)
    \/ \E d \in FilterDates : ChangeEndDate(d)

SpecFilter == InitFilter /\ [][NextFilter]_vars

---------------------------------------------------------------------------
(* Properties *)

\* the record constraints as the data model states them
LatitudeInRange(x) == x >= 0 - 90 * Deg /\ x <= 90 * Deg
LongitudeInRange(x) == x >= 0 - 180 * Deg /\ x <= 180 * Deg
KnownCategories(c) == Len(c) >= 1 /\ \A k \in 1..Len(c) : c[k] \in Categories

\* the record a Create click submits: the clicked point and the form's fields
Submitted ==
    Row(clickData.lat, clickData.lng, add_category, add_date, add_title,
        add_description)

\* a submitted record the validator has to reject
Rejectable(r) ==
    \/ ~LatitudeInRange(r.latitude)
    \/ ~LongitudeInRange(r.longitude)
    \/ r.category = None \/ r.title = None \/ r.description = None

\* C1: every record in the store has its latitude in [-90, 90], its longitude
\* in [-180, 180] and a non-empty category list of configured names only.
C1_StoredRecordsMeetConstraints ==
    \A i \in 1..Len(df) :
        /\ LatitudeInRange(df[i].latitude)
        /\ LongitudeInRange(df[i].longitude)
        /\ KnownCategories(df[i].category)

\* C2: a Create click on a record in range with every field filled adds it;
\* every add makes the store one row longer, the new row last (the submitted
\* record, at the clicked point) and the rows before it as they were.
C2_AddAppendsOneRow ==
    [][ (ev'.op = "create_poi" /\ ev'.by # "map_click") =>
          /\ (ev'.by = "create_click" /\ ~Rejectable(Submitted))
                => ev'.outcome = "added"
          /\ ev'.outcome = "added" =>
                /\ Len(df') = Len(df) + 1
                /\ \A i \in 1..Len(df) : df'[i] = df[i]
                /\ df'[Len(df')].latitude = clickData.lat
                /\ df'[Len(df')].longitude = clickData.lng
                /\ ev'.by = "create_click" => df'[Len(df')] = Submitted ]_vars

C2_Witness ==
    /\ ev.op = "create_poi" /\ ev.by = "create_click" /\ ev.outcome = "added"
    /\ Len(df) = 2 /\ df[2].title = <<"C">>

\* C3: when an add or a remove has succeeded, the rows read back from the
\* persisted table are the rows of the in-memory table.
C3_PersistedEqualsMemory ==
    ev.outcome \in {"added", "removed"} =>
        /\ Len(disk.title) = Len(df)
        /\ read_parquet(disk) = df

C3_Witness ==
    /\ ev.op = "remove_poi" /\ ev.outcome = "removed"
    /\ Len(df) = 1 /\ df[1].title = <<"C">>

C5_RejectedAddChangesNothing ==
    [][ (ev'.op = "create_poi" /\ ev'.by = "create_click" /\ Rejectable(Submitted)) =>
          /\ df' = df
          /\ disk' = disk
          /\ ~new_success_is_open'
          /\ add_modal_is_open'
          /\ ~add_toast_is_open'
          /\ add_title' = add_title
          /\ add_category' = add_category
          /\ add_date' = add_date
          /\ add_description' = add_description ]_vars

C5_Witness ==
    /\ ev.op = "create_poi" /\ ev.by = "create_click" /\ ev.outcome = "SchemaError"
    /\ clickData.lat = 95 * Deg
    /\ add_title # None /\ add_category # None /\ add_description # None

\* C6: a Remove click whose selected key is outside the current table leaves
\* the store and the persisted table as they are and ends in the lookup's
\* out-of-range error (IndexError).
C6_StaleRemoveChangesNothing ==
    [][ (ev'.op = "remove_poi" /\ ev'.by = "remove_click"
         /\ remove_value # NoValue /\ ~(remove_value >= 0 /\ remove_value < Len(df))) =>
          /\ df' = df
          /\ disk' = disk
          /\ ev'.outcome = "IndexError"
          /\ ~remove_success_is_open' ]_vars

C6_Witness ==
    /\ ev.op = "remove_poi" /\ ev.by = "remove_click" /\ ev.outcome = "IndexError"
    /\ remove_value >= Len(df)

\* C7: while the add workflow is open (prompt or form) the Remove button is
\* disabled, while the remove picker is open the Add button is disabled, and
\* the two are never open together.
C7_OneWorkflowAtATime ==
    /\ (add_toast_is_open \/ add_modal_is_open) => remove_open_disabled
    /\ remove_modal_is_open => add_open_disabled
    /\ ~((add_toast_is_open \/ add_modal_is_open) /\ remove_modal_is_open)

\* C8: once both callbacks of a map click on the active prompt have answered,
\* the form is open, the prompt is closed and the location field shows the
\* clicked point.
C8_MapClickOpensForm ==
    (Quiet /\ ev.by = "map_click" /\ ev.outcome = "applied" /\ ~add_location.nan) =>
        /\ add_modal_is_open
        /\ ~add_toast_is_open
        /\ add_location = [nan |-> FALSE, lat3 |-> Fixed3(clickData.lat),
                           lng3 |-> Fixed3(clickData.lng)]

\* C9: a click on Add POI opens the prompt and disables the Add and the
\* Remove button; the store is unchanged and the form stays closed.
C9_AddClickOpensPrompt ==
    [][ ev'.op = "show_toast" =>
          /\ add_toast_is_open'
          /\ add_open_disabled'
          /\ remove_open_disabled'
          /\ ~add_modal_is_open'
          /\ df' = df
          /\ disk' = disk ]_vars

C9_Witness ==
    ev.op = "show_toast" /\ add_toast_is_open /\ Len(df) = 2

\* C10: after a successful add the form and the prompt are closed, the Add and
\* the Remove button are enabled, the success notice is open and names the
\* title of the row just added, and the title, category and description
\* fields are cleared.
C10_AddReturnsToIdle ==
    (ev.op = "create_poi" /\ ev.outcome = "added") =>
        /\ ~add_modal_is_open
        /\ ~add_toast_is_open
        /\ ~add_open_disabled
        /\ ~remove_open_disabled
        /\ new_success_is_open
        /\ new_success_children.kind = "Added POI"
        /\ new_success_children.title = df[Len(df)].title
        /\ add_title = None
        /\ add_category = None
        /\ add_description = None

C10_Witness ==
    /\ ev.op = "create_poi" /\ ev.outcome = "added"
    /\ new_success_children.title = <<"C">>

\* the rows the sidebar's filter is to let through: one of the row's names is
\* switched on and, with both ends of the range given, the date lies within
Switched == { category_filter[j] : j \in 1..Len(category_filter) }
Named(r) == { r.category[k] : k \in 1..Len(r.category) }
RangeGiven == date_filter.start_date.set /\ date_filter.end_date.set
Matches(r) ==
    /\ Named(r) \cap Switched # {}
    /\ RangeGiven =>
          /\ date_filter.start_date.iso <= r.date
          /\ r.date <= date_filter.end_date.iso

\* the marker of one row, as the map is to show it
MarkerOf(r) ==
    [position |-> <<r.latitude, r.longitude>>, title |-> r.title,
     date |-> [iso |-> r.date, set |-> TRUE], category |-> Join(r.category),
     description |-> r.description]

\* C11: when filter_markers has run for a changed selection or date range, the
\* marker layer holds the markers of exactly the matching rows, in row order.
C11_FilterChangeShowsMatchingRows ==
    ev.op = "filter_markers" =>
        LET matching == SelectSeq(df, Matches)
        IN  markers = [i \in 1..Len(matching) |-> MarkerOf(matching[i])]

\* C12: the filter selects exactly the rows that have a name switched on and,
\* with both ends of the range given, a date within it (ends included), in
\* row order; with nothing switched on it selects no row; of A(day 1, [x])
\* and B(day 3, [y]) with x and y on and the range (1, 1) it selects A alone.
C12_FilterSelectsMatchingRows ==
    /\ selected = SelectSeq(df, Matches)
    /\ category_filter = <<>> => selected = <<>>
    /\ \A i \in 1..Len(df) :
          (RangeGiven /\ Named(df[i]) \cap Switched # {}
              /\ df[i].date \in {date_filter.start_date.iso, date_filter.end_date.iso}
              /\ date_filter.start_date.iso <= date_filter.end_date.iso)
            => \E k \in 1..Len(selected) : selected[k] = df[i]

C12_Witness ==
    /\ ev.op = "filter_markers"
    /\ Len(df) = 2
    /\ df[1].date = 1 /\ df[1].category = <<"x">>
    /\ df[2].date = 3 /\ df[2].category = <<"y">>
    /\ category_filter = <<"x", "y">>
    /\ date_filter = [start_date |-> isoformat(1), end_date |-> isoformat(1)]
    /\ selected = <<df[1]>>

\* C13: with no date range and the names switched on being exactly the names
\* present in the table, the filter selects every row of the table, in order.
C13_FullSelectionIsIdentity ==
    (/\ ev.op = "filter_markers"
     /\ ~date_filter.start_date.set /\ ~date_filter.end_date.set
     /\ Switched = UNION { Named(df[i]) : i \in 1..Len(df) })
        => selected = df


\* C14: once every answer of update_markers that a Create or a Remove
\* submission brought about has been applied, the marker layer holds one
\* marker per row of the table as the submission left it, in row order,
\* whether update_markers read the table before or after the mutation.
C14_MarkersFollowTheStore ==
    markers_inflight = <<>> =>
        markers = [i \in 1..Len(df) |-> MarkerOf(df[i])]

C14_Witness ==
    /\ ev.op = "update_markers" /\ ev.by = "remove_click"
    /\ markers_inflight = <<>>
    /\ Len(df) = 1 /\ df[1].title = <<"C">>
    /\ Len(markers) = 1 /\ markers[1].title = <<"C">>

\* the label that shows the whole description
FullLabel(t, d) == t \o <<" ", "(">> \o d \o <<")">>

\* C15: every label of the remove picker is at most 80 characters long; a
\* label that does not show the whole description shows a prefix of it
\* followed by exactly three dots and is exactly 80 characters long.
C15_LabelWithinBudget ==
    remove_modal_is_open =>
        \A i \in 1..Len(remove_options) :
            LET t == df[i].title
                d == df[i].description
                l == remove_options[i]
            IN  /\ Len(l) <= 80
                /\ l # FullLabel(t, d) =>
                      /\ Len(l) = 80
                      /\ \E k \in 0..Len(d) :
                            l = FullLabel(t, SubSeq(d, 1, k) \o <<".", ".", ".">>)

\* C16: a process started without a database file comes to serve an empty
\* table; started on a file it serves exactly the rows of the file.
C16_StartLoadsOrCreatesTable ==
    /\ ~file_exists => phase # "aborted"
    /\ (~file_exists /\ phase = "serving") => df = <<>>
    /\ (file_exists /\ phase = "serving") => df = read_parquet(disk)

\* the count the statistics give for a name
CountOf(c) == IF c \in DOMAIN statistics THEN statistics[c] ELSE 0
RECURSIVE SumOver(_, _)
SumOver(f, S) ==
    IF S = {} THEN 0
    ELSE LET c == CHOOSE x \in S : TRUE IN f[c] + SumOver(f, S \ {c})
Entries == { <<i, k>> \in (1..Len(df)) \X (1..2) : k <= Len(df[i].category) }

\* C17 as stated: the statistics give for every name the number of rows whose
\* category list contains it, and the counts add up to the number of category
\* entries of all rows.
C17_CountsRowsNamingTheCategory ==
    phase = "serving" =>
        /\ \A c \in Categories :
              CountOf(c) = Cardinality({ i \in 1..Len(df) : c \in Named(df[i]) })
        /\ SumOver(statistics, DOMAIN statistics) = Cardinality(Entries)

\* C17, amended: the statistics give for every name the number of times it
\* occurs in the category lists of all rows (for a row that names it once,
\* one per row), list the names that occur and no other, and the counts add
\* up to the number of category entries of all rows.
C17_CountsOccurrences ==
    phase = "serving" =>
        /\ \A c \in Categories :
              CountOf(c) = Cardinality({ e \in Entries : df[e[1]].category[e[2]] = c })
        /\ DOMAIN statistics = UNION { Named(df[i]) : i \in 1..Len(df) }
        /\ SumOver(statistics, DOMAIN statistics) = Cardinality(Entries)

C17_Witness ==
    /\ phase = "serving" /\ ev.op = "build"
    /\ Len(df) = 2
    /\ df[1].category = <<"x", "x">> /\ df[2].category = <<"x", "y">>
    /\ statistics["x"] = 3 /\ statistics["y"] = 1

\* C18: the table and the file change only in the step that handles a click
\* on Create with the form open, which adds one row, or a click on Remove with
\* an entry selected, which removes one; every other step (a field edit, a
\* selection in the picker, a map click, a click on Add POI or Remove POI, an
\* answer arriving) leaves both as they are.
C18_StoreChangesOnSubmissionOnly ==
    [][ (df' # df \/ disk' # disk) =>
          \/ /\ ev'.op = "create_poi" /\ ev'.by = "create_click"
             /\ add_modal_is_open
             /\ Len(df') = Len(df) + 1
          \/ /\ ev'.op = "remove_poi" /\ ev'.by = "remove_click"
             /\ remove_value # NoValue
             /\ Len(df') = Len(df) - 1 ]_vars

\* the preview pane showing row r
Previews(pane, r) ==
    /\ pane.title = r.title
    /\ pane.category = Join(r.category)
    /\ pane.description = r.description

===========================================================================
